---- MODULE Spec2Model ----
(***************************************************************************)
(* The per-file transform cache of the hermes transform plugin             *)
(* (createHermesTransformPlugin): the two-tier lookup                      *)
(* getTransformedSourceFromCache, the transform-and-store path             *)
(* transformSource and the build.onLoad handler that joins them, run by    *)
(* concurrent loads inside one build process, with source files that are   *)
(* edited meanwhile and a cache root that survives process restarts.       *)
(*                                                                         *)
(* One action is one resumption of an async function: the I/O an await     *)
(* waits for takes effect in the step that resumes the function, and the   *)
(* synchronous code up to the next await runs in the same step.            *)
(***************************************************************************)
EXTENDS Integers, Sequences, FiniteSets, TLC

\* ------------------------------------------------------------- bounds
\* How many times a source file is edited while one load at a time runs.
MaxEdits == 1
\* How many times the build process is restarted.
MaxRestarts == 1
\* How many times a source file is edited while loads run concurrently.
MaxRacingEdits == 1

\* ------------------------------------------------------------ universe
\* The concurrent onLoad invocations of one process.
Loads == {"l1", "l2"}
\* Source files matched by the onLoad filter.
Files == {"/a.js", "/b.js"}
\* What a source file may contain: the empty file, a flow-typed file, a plain file.
ContentsOf(path) == IF path = "/a.js" THEN {"", "@flow a;"} ELSE {"b;"}
\* build.initialOptions.platform: undefined, or a platform name.
Platforms == {<<>>, <<"node">>}
\* context.config.transform of two projects.
ConfigA == [fullyTransformPackageNames |-> {},
            stripFlowPackageNames |-> {},
            customTransformRules |-> <<>>]
ConfigB == [fullyTransformPackageNames |-> {"/b.js"},
            stripFlowPackageNames |-> {},
            customTransformRules |-> <<[test |-> {"/a.js", "/b.js"}, plugins |-> "rule1"]>>]
Configs == {ConfigA, ConfigB}
\* The platform and configuration a build process may be set up with.
Setups == {<< <<>>, ConfigA>>, << <<"node">>, ConfigA>>, << <<"node">>, ConfigB>>}

\* What a run exercises: the loads esbuild issues, the files it loads and that
\* are edited, how often they are edited and the process restarted.
OneLoadAtATime == [loads |-> {"l1"}, files |-> {"/a.js"},
                   edits |-> MaxEdits, restarts |-> MaxRestarts]
ConcurrentLoads == [loads |-> Loads, files |-> {"/a.js"},
                    edits |-> MaxRacingEdits, restarts |-> 0]
TwoFiles == [loads |-> Loads, files |-> Files, edits |-> 0, restarts |-> 0]
Scopes == {OneLoadAtATime, ConcurrentLoads, TwoFiles}

VARIABLES
    cacheEnabled,  \* context.bundlerConfig.dev of the running process
    platform,      \* build.initialOptions.platform of the running process
    config,        \* context.config of the running process
    memory,        \* the CacheManager's in-memory tier: key -> {data, modifiedAt}
    fsTier,        \* the cache root on disk: hash -> transformed text
    cacheRootOk,   \* whether the cache root can be read and written
    versions,      \* per source file, the contents it has had; its mtime is the index of the last
    ld,            \* per load, the locals of its onLoad invocation
    epoch,         \* how many restarts the process has had
    persisted,     \* (history) the hashes the cache root held when the process started
    rootEverOk,    \* (history) whether the cache root has worked at some time in this process
    scope,         \* what the run exercises, one of Scopes
    probe,         \* two (path, platform) pairs and the in-memory keys derived from them
    copy           \* one call of copyAssetsToDestination: its context, tasks and directories

vars == <<cacheEnabled, platform, config, memory, fsTier, cacheRootOk, versions,
          ld, epoch, persisted, rootEverOk, scope, probe, copy>>

\* No keys are being compared; copyAssetsToDestination has not been called.
NoProbe == [p1 |-> "", pl1 |-> <<>>, p2 |-> "", pl2 |-> <<>>, keys |-> <<>>]
NoCopy == [pc |-> "none"]

\* --------------------------------------------------------- source files
\* stat().mtimeMs of a source file: every edit gives the file a new modification time.
MtimeOf(path) == Len(versions[path]) - 1
\* What readFile returns for a source file now.
ContentOf(path) == versions[path][Len(versions[path])]
\* What the file held while its modification time was t.
ContentAt(path, t) == versions[path][t + 1]

\* ---------------------------------------------------------- transformer
\* isFlow(source, path): the source carries the flow pragma.
isFlow(source, path) == source = "@flow a;"

\* transformWithBabel: an empty program stays empty, any other is rewritten.
transformWithBabel(source, plugins) ==
    IF source = "" THEN "" ELSE plugins \o "(" \o source \o ")"

\* transformWithSwc: the down-level step.
transformWithSwc(source) ==
    IF source = "" THEN "" ELSE "swc(" \o source \o ")"

\* The for-await loop over customTransformRules, from rule i on.
RECURSIVE ApplyCustomRules(_, _, _, _)
ApplyCustomRules(rules, i, path, source) ==
    IF i > Len(rules) THEN source
    ELSE ApplyCustomRules(rules, i + 1, path,
             IF path \in rules[i].test
             THEN transformWithBabel(source, rules[i].plugins)
             ELSE source)

\* The transform steps of transformSource, in order, on rawSource.
TransformPipeline(cfg, path, rawSource) ==
    LET fullyTransformed == path \in cfg.fullyTransformPackageNames
        s1 == IF fullyTransformed
              THEN transformWithBabel(rawSource, "babelrc")
              ELSE rawSource
        s2 == IF ~fullyTransformed
                 /\ (isFlow(s1, path) \/ path \in cfg.stripFlowPackageNames)
              THEN transformWithBabel(s1, "stripFlow")
              ELSE s1
        s3 == ApplyCustomRules(cfg.customTransformRules, 1, path, s2)
    IN  transformWithSwc(s3)

\* The names of the transform steps transformSource runs on rawSource, in order.
TransformSteps(cfg, path, rawSource) ==
    LET fullyTransformed == path \in cfg.fullyTransformPackageNames
        first == IF fullyTransformed THEN <<"babelrc">>
                 ELSE IF isFlow(rawSource, path) \/ path \in cfg.stripFlowPackageNames
                      THEN <<"stripFlow">>
                      ELSE <<>>
        applied == SelectSeq(cfg.customTransformRules,
                             LAMBDA rule : path \in rule.test)
        matching == [i \in 1..Len(applied) |-> applied[i].plugins]
    IN  first \o matching \o <<"swc">>

\* ---------------------------------------------------------- CacheManager
\* (memoryCacheKey, were the key built from the platform alone)
memoryCacheKey_PlatformOnly(path, pf) == IF pf = <<>> THEN "" ELSE pf[1]

\* The key of the in-memory tier: `${args.path}${platform ?? ''}`.
memoryCacheKey(path, pf) == path \o (IF pf = <<>> THEN "" ELSE pf[1])

\* cache.getCacheHash([platform, config, path, mtimeMs]): a digest, taken to be
\* free of collisions.
getCacheHash(pf, cfg, path, mtimeMs) == <<pf, cfg, path, mtimeMs>>

\* cache.readFromMemory(key): the entry, or nothing.
readFromMemory(key) == IF key \in DOMAIN memory THEN <<memory[key]>> ELSE <<>>

\* cache.writeToMemory(key, entry): overwrites unconditionally.
writeToMemory(key, entry) ==
    [k \in DOMAIN memory \cup {key} |-> IF k = key THEN entry ELSE memory[k]]

\* cache.readFromFileSystem(hash): the text, or nothing when the entry is
\* missing or the cache root cannot be read.
readFromFileSystem(hash) ==
    IF cacheRootOk /\ hash \in DOMAIN fsTier THEN <<fsTier[hash]>> ELSE <<>>

\* cache.writeToFileSystem(hash, data): writes the entry; a failing write is
\* reported and leaves the cache root as it was.
writeToFileSystem(hash, data) ==
    IF cacheRootOk
    THEN [h \in DOMAIN fsTier \cup {hash} |-> IF h = hash THEN data ELSE fsTier[h]]
    ELSE fsTier

\* hashParam, hashed: the platform and configuration of the process, the path
\* and the modification time stat() returned.
\* (the same, were the modification time left out of what is hashed)
HashOfParam_IgnoringMtime(path, mtimeMs) == getCacheHash(platform, config, path, 0)
HashOfParam(path, mtimeMs) == getCacheHash(platform, config, path, mtimeMs)

\* inMemoryCache.modifiedAt === mtimeMs: the file is not modified.
\* (the same, were the comparison left out)
NotModified_Always(inMemoryCache, mtimeMs) == TRUE
NotModified(inMemoryCache, mtimeMs) == inMemoryCache.modifiedAt = mtimeMs

\* if (cacheEnabled): the lookup consults the tiers only when caching is on.
\* (the same, were the switch ignored)
IfCacheEnabled_Always == TRUE
IfCacheEnabled == cacheEnabled

\* JavaScript's truthiness of a `string | undefined`: undefined and '' are falsy.
Truthy(opt) == opt # <<>> /\ opt[1] # ""

\* ----------------------------------------------------------------- loads
\* The locals of an onLoad invocation that has not started.
IdleLoad ==
    [pc |-> "idle",          \* idle, open, stat, fsread, read, close, transform, fswrite, done
     path |-> "",            \* args.path
     fileHandle |-> "null",  \* null, open, closed
     mtimeMs |-> <<>>,       \* what stat() returned
     stale |-> FALSE,        \* an in-memory entry was found with another modifiedAt
     hash |-> <<>>,          \* the hash getTransformedSourceFromCache returns
     contents |-> "",        \* the contents getTransformedSourceFromCache returns
     fromCache |-> FALSE,    \* the fromCache it returns
     error |-> "",           \* the error the invocation is failing with
     source |-> "",          \* transformSource's source
     outcome |-> "none",     \* none, resolved, rejected
     result |-> "",          \* the contents of the OnLoadResult
     \* history: what the invocation has done
     memRead |-> FALSE, fsRead |-> FALSE, fsWrite |-> FALSE,
     transformed |-> FALSE, servedFrom |-> "",
     servedModifiedAt |-> <<>>, epoch |-> 0,
     rawRead |-> FALSE,      \* fileHandle.readFile has returned the raw source
     closes |-> 0,           \* how many times fileHandle.close was called
     failedStep |-> ""]      \* the transform step that threw

TypeOK ==
    /\ cacheEnabled \in BOOLEAN
    /\ platform \in Platforms
    /\ config \in Configs
    /\ cacheRootOk \in BOOLEAN
    /\ scope \in Scopes
    /\ epoch \in 0..scope.restarts
    /\ \A f \in Files : Len(versions[f]) \in 1..(scope.edits + 1)
    /\ \A l \in Loads : ld[l].pc \in {"idle", "open", "stat", "fsread", "read",
                                      "close", "transform", "fswrite", "done"}

Init ==
    /\ scope \in Scopes
    /\ cacheEnabled \in BOOLEAN
    /\ \E setup \in Setups : platform = setup[1] /\ config = setup[2]
    /\ memory = <<>>
    /\ fsTier = <<>>
    /\ cacheRootOk \in BOOLEAN
    /\ versions \in {v \in [Files -> {<<c>> : c \in UNION {ContentsOf(f) : f \in Files}}] :
                        \A f \in Files : v[f][1] \in ContentsOf(f)}
    /\ \A f \in Files \ scope.files : versions[f] = <<"">> \/ ContentsOf(f) = {"b;"}
    /\ ld = [l \in Loads |-> IdleLoad]
    /\ probe = NoProbe
    /\ copy = NoCopy
    /\ epoch = 0
    /\ persisted = {}
    /\ rootEverOk = cacheRootOk

\* ------------------------------------------------------------ environment
\* An editor saves the file: new contents (or the same, a touch), new mtime.
Edit(f) ==
    /\ f \in scope.files
    /\ Len(versions[f]) <= scope.edits
    /\ \E c \in ContentsOf(f) : versions' = [versions EXCEPT ![f] = Append(@, c)]
    /\ UNCHANGED <<cacheEnabled, platform, config, memory, fsTier, cacheRootOk,
                   ld, epoch, persisted, rootEverOk, scope, probe, copy>>

\* The cache root stops working (disk full, permission denied, removed).
BreakCacheRoot ==
    /\ cacheRootOk
    /\ cacheRootOk' = FALSE
    /\ UNCHANGED <<cacheEnabled, platform, config, memory, fsTier, versions,
                   ld, epoch, persisted, rootEverOk, scope, probe, copy>>

\* The cache root works again.
RepairCacheRoot ==
    /\ ~cacheRootOk
    /\ cacheRootOk' = TRUE
    /\ rootEverOk' = TRUE
    /\ UNCHANGED <<cacheEnabled, platform, config, memory, fsTier, versions,
                   ld, epoch, persisted, scope, probe, copy>>

\* The process ends and a new one starts: the in-memory tier and the running
\* loads are gone, the cache root stays.
Restart ==
    /\ epoch < scope.restarts
    /\ epoch' = epoch + 1
    /\ cacheEnabled' \in BOOLEAN
    /\ \E setup \in Setups : platform' = setup[1] /\ config' = setup[2]
    /\ memory' = <<>>
    /\ ld' = [l \in Loads |-> IdleLoad]
    /\ persisted' = DOMAIN fsTier
    /\ rootEverOk' = cacheRootOk
    /\ UNCHANGED <<fsTier, cacheRootOk, versions, scope, probe, copy>>

\* ------------------------------------------------------------------ onLoad
\* The promise of the invocation settles.
Resolve(r, contents) == [r EXCEPT !.pc = "done", !.outcome = "resolved", !.result = contents]
Reject(r, error) == [r EXCEPT !.pc = "done", !.outcome = "rejected", !.error = error]

\* esbuild calls the onLoad callback for a file; it calls
\* getTransformedSourceFromCache, which issues fs.open.
OnLoad(l, path) ==
    /\ l \in scope.loads /\ path \in scope.files
    /\ ld[l].pc \in {"idle", "done"}
    /\ ld' = [ld EXCEPT ![l] = [IdleLoad EXCEPT !.pc = "open", !.path = path,
                                                !.epoch = epoch]]
    /\ UNCHANGED <<cacheEnabled, platform, config, memory, fsTier, cacheRootOk,
                   versions, epoch, persisted, rootEverOk, scope, probe, copy>>

\* fs.open settles. A failure leaves fileHandle null: finally closes nothing
\* and the error reaches the caller of onLoad.
OpenDone(l) ==
    /\ ld[l].pc = "open"
    /\ \E ok \in BOOLEAN :
         ld' = [ld EXCEPT ![l] =
                  IF ~ok THEN Reject(@, "open")
                  ELSE [@ EXCEPT !.fileHandle = "open",
                                 !.pc = IF IfCacheEnabled THEN "stat" ELSE "read"]]
    /\ UNCHANGED <<cacheEnabled, platform, config, memory, fsTier, cacheRootOk,
                   versions, epoch, persisted, rootEverOk, scope, probe, copy>>

\* (StatDone, were a stale in-memory entry to fall through to the filesystem tier)
StatDone_StaleFallsThrough(l) ==
    /\ ld[l].pc = "stat"
    /\ \E ok \in BOOLEAN :
         LET r == ld[l]
             mtimeMs == MtimeOf(r.path)
             inMemoryCache == readFromMemory(memoryCacheKey(r.path, platform))
             seen == [r EXCEPT !.mtimeMs = <<mtimeMs>>, !.memRead = TRUE]
         IN  ld' = [ld EXCEPT ![l] =
                      IF ~ok THEN [r EXCEPT !.error = "stat", !.pc = "close"]
                      ELSE IF inMemoryCache # <<>> /\ NotModified(inMemoryCache[1], mtimeMs)
                      THEN [seen EXCEPT !.contents = inMemoryCache[1].data,
                                        !.fromCache = TRUE,
                                        !.servedFrom = "memory",
                                        !.servedModifiedAt = <<inMemoryCache[1].modifiedAt>>,
                                        !.pc = "close"]
                      ELSE [seen EXCEPT !.stale = (inMemoryCache # <<>>),
                                        !.hash = <<HashOfParam(r.path, mtimeMs)>>,
                                        !.pc = "fsread"]]
    /\ UNCHANGED <<cacheEnabled, platform, config, memory, fsTier, cacheRootOk,
                   versions, epoch, persisted, rootEverOk, scope, probe, copy>>

\* (StatDone, were the hash computed before the in-memory tier is consulted and
\* returned with a hit)
StatDone_HashingFirst(l) ==
    /\ ld[l].pc = "stat"
    /\ \E ok \in BOOLEAN :
         LET r == ld[l]
             mtimeMs == MtimeOf(r.path)
             inMemoryCache == readFromMemory(memoryCacheKey(r.path, platform))
             seen == [r EXCEPT !.mtimeMs = <<mtimeMs>>, !.memRead = TRUE,
                               !.hash = <<HashOfParam(r.path, mtimeMs)>>]
         IN  ld' = [ld EXCEPT ![l] =
                      IF ~ok THEN [r EXCEPT !.error = "stat", !.pc = "close"]
                      ELSE IF inMemoryCache # <<>>
                      THEN IF NotModified(inMemoryCache[1], mtimeMs)
                           THEN [seen EXCEPT !.contents = inMemoryCache[1].data,
                                             !.fromCache = TRUE,
                                             !.servedFrom = "memory",
                                             !.servedModifiedAt = <<inMemoryCache[1].modifiedAt>>,
                                             !.pc = "close"]
                           ELSE [seen EXCEPT !.stale = TRUE, !.hash = <<>>, !.pc = "read"]
                      ELSE [seen EXCEPT !.pc = "fsread"]]
    /\ UNCHANGED <<cacheEnabled, platform, config, memory, fsTier, cacheRootOk,
                   versions, epoch, persisted, rootEverOk, scope, probe, copy>>

\* fileHandle.stat settles, then the in-memory tier is consulted.
StatDone(l) ==
    /\ ld[l].pc = "stat"
    /\ \E ok \in BOOLEAN :
         LET r == ld[l]
             mtimeMs == MtimeOf(r.path)
             inMemoryCache == readFromMemory(memoryCacheKey(r.path, platform))
             seen == [r EXCEPT !.mtimeMs = <<mtimeMs>>, !.memRead = TRUE]
         IN  ld' = [ld EXCEPT ![l] =
                      IF ~ok THEN [r EXCEPT !.error = "stat", !.pc = "close"]
                      ELSE IF inMemoryCache # <<>>
                      THEN IF NotModified(inMemoryCache[1], mtimeMs)
                           THEN [seen EXCEPT !.contents = inMemoryCache[1].data,
                                             !.fromCache = TRUE,
                                             !.servedFrom = "memory",
                                             !.servedModifiedAt = <<inMemoryCache[1].modifiedAt>>,
                                             !.pc = "close"]
                           ELSE [seen EXCEPT !.stale = TRUE, !.pc = "read"]
                      ELSE [seen EXCEPT !.hash = <<HashOfParam(r.path, mtimeMs)>>,
                                        !.pc = "fsread"]]
    /\ UNCHANGED <<cacheEnabled, platform, config, memory, fsTier, cacheRootOk,
                   versions, epoch, persisted, rootEverOk, scope, probe, copy>>

\* cache.readFromFileSystem settles; a hit is promoted into the in-memory tier.
FsReadDone(l) ==
    /\ ld[l].pc = "fsread"
    /\ LET r == ld[l]
           cachedSource == readFromFileSystem(r.hash[1])
       IN  IF Truthy(cachedSource)
           THEN /\ memory' = writeToMemory(memoryCacheKey(r.path, platform),
                                 [data |-> cachedSource[1], modifiedAt |-> r.mtimeMs[1]])
                /\ ld' = [ld EXCEPT ![l] =
                            [r EXCEPT !.fsRead = TRUE,
                                      !.contents = cachedSource[1],
                                      !.fromCache = TRUE,
                                      !.hash = <<>>,
                                      !.servedFrom = "filesystem",
                                      !.servedModifiedAt = <<r.hash[1][4]>>,
                                      !.pc = "close"]]
           ELSE /\ memory' = memory
                /\ ld' = [ld EXCEPT ![l] = [r EXCEPT !.fsRead = TRUE, !.pc = "read"]]
    /\ UNCHANGED <<cacheEnabled, platform, config, fsTier, cacheRootOk,
                   versions, epoch, persisted, rootEverOk, scope, probe, copy>>

\* (ReadFileDone, were a failing readFile to reach the caller without finally)
ReadFileDone_LeakingOnError(l) ==
    /\ ld[l].pc = "read"
    /\ \E ok \in BOOLEAN :
         LET r == ld[l] IN
         ld' = [ld EXCEPT ![l] =
                  IF ~ok THEN Reject(r, "read")
                  ELSE [r EXCEPT !.contents = ContentOf(r.path),
                                 !.rawRead = TRUE,
                                 !.fromCache = FALSE,
                                 !.hash = IF r.stale
                                          THEN <<HashOfParam(r.path, r.mtimeMs[1])>>
                                          ELSE r.hash,
                                 !.pc = "close"]]
    /\ UNCHANGED <<cacheEnabled, platform, config, memory, fsTier, cacheRootOk,
                   versions, epoch, persisted, rootEverOk, scope, probe, copy>>

\* fileHandle.readFile settles: the raw source, with the hash to store under.
ReadFileDone(l) ==
    /\ ld[l].pc = "read"
    /\ \E ok \in BOOLEAN :
         LET r == ld[l] IN
         ld' = [ld EXCEPT ![l] =
                  IF ~ok THEN [r EXCEPT !.error = "read", !.pc = "close"]
                  ELSE [r EXCEPT !.contents = ContentOf(r.path),
                                 !.rawRead = TRUE,
                                 !.fromCache = FALSE,
                                 !.hash = IF r.stale
                                          THEN <<HashOfParam(r.path, r.mtimeMs[1])>>
                                          ELSE r.hash,
                                 !.pc = "close"]]
    /\ UNCHANGED <<cacheEnabled, platform, config, memory, fsTier, cacheRootOk,
                   versions, epoch, persisted, rootEverOk, scope, probe, copy>>

\* (CloseDone, were the error of the source file swallowed instead of rethrown)
CloseDone_SwallowingError(l) ==
    /\ ld[l].pc = "close"
    /\ LET r == [ld[l] EXCEPT !.fileHandle = "closed", !.closes = @ + 1] IN
       ld' = [ld EXCEPT ![l] =
                IF r.fromCache THEN Resolve(r, r.contents)
                ELSE IF r.hash = <<>> THEN Reject(r, "hash is required for caching")
                ELSE [r EXCEPT !.pc = "transform"]]
    /\ UNCHANGED <<cacheEnabled, platform, config, memory, fsTier, cacheRootOk,
                   versions, epoch, persisted, rootEverOk, scope, probe, copy>>

\* finally: fileHandle.close settles and getTransformedSourceFromCache returns
\* or throws; onLoad goes on to return the cached contents or to call
\* transformSource, which refuses to run without a hash.
CloseDone(l) ==
    /\ ld[l].pc = "close"
    /\ LET r == [ld[l] EXCEPT !.fileHandle = "closed", !.closes = @ + 1] IN
       ld' = [ld EXCEPT ![l] =
                IF r.error # "" THEN Reject(r, r.error)
                ELSE IF r.fromCache THEN Resolve(r, r.contents)
                ELSE IF r.hash = <<>> THEN Reject(r, "hash is required for caching")
                ELSE [r EXCEPT !.pc = "transform"]]
    /\ UNCHANGED <<cacheEnabled, platform, config, memory, fsTier, cacheRootOk,
                   versions, epoch, persisted, rootEverOk, scope, probe, copy>>

\* (TransformDone, were the store issued whether or not a step threw, as from a
\* finally block)
TransformDone_StoringOnFailure(l) ==
    /\ ld[l].pc = "transform"
    /\ \E failAt \in 0..Len(TransformSteps(config, ld[l].path, ld[l].contents)) :
         LET r == [ld[l] EXCEPT !.transformed = TRUE]
             steps == TransformSteps(config, r.path, r.contents) IN
         ld' = [ld EXCEPT ![l] =
                  IF failAt > 0
                  THEN [r EXCEPT !.failedStep = steps[failAt], !.error = "transform",
                                 !.source = r.contents, !.pc = "fswrite"]
                  ELSE [r EXCEPT !.source = TransformPipeline(config, r.path, r.contents),
                                 !.pc = "fswrite"]]
    /\ UNCHANGED <<cacheEnabled, platform, config, memory, fsTier, cacheRootOk,
                   versions, epoch, persisted, rootEverOk, scope, probe, copy>>

\* The transform steps settle: one of them throws (step failAt; 0 is none), or
\* the transformed source is handed to cache.writeToFileSystem.
TransformDone(l) ==
    /\ ld[l].pc = "transform"
    /\ \E failAt \in 0..Len(TransformSteps(config, ld[l].path, ld[l].contents)) :
         LET r == [ld[l] EXCEPT !.transformed = TRUE]
             steps == TransformSteps(config, r.path, r.contents) IN
         ld' = [ld EXCEPT ![l] =
                  IF failAt > 0
                  THEN Reject([r EXCEPT !.failedStep = steps[failAt]], "transform")
                  ELSE LET source == TransformPipeline(config, r.path, r.contents) IN
                       IF cacheEnabled
                       THEN [r EXCEPT !.source = source, !.pc = "fswrite"]
                       ELSE Resolve([r EXCEPT !.source = source], source)]
    /\ UNCHANGED <<cacheEnabled, platform, config, memory, fsTier, cacheRootOk,
                   versions, epoch, persisted, rootEverOk, scope, probe, copy>>

\* (FsWriteDone, were the raw source stored in place of the transformed one)
FsWriteDone_StoringRaw(l) ==
    /\ ld[l].pc = "fswrite"
    /\ fsTier' = writeToFileSystem(ld[l].hash[1], ld[l].contents)
    /\ ld' = [ld EXCEPT ![l] = Resolve([@ EXCEPT !.fsWrite = cacheRootOk], @.source)]
    /\ UNCHANGED <<cacheEnabled, platform, config, memory, cacheRootOk,
                   versions, epoch, persisted, rootEverOk, scope, probe, copy>>

\* (FsWriteDone, were a failing write of the cache root to reject the load)
FsWriteDone_Throwing(l) ==
    /\ ld[l].pc = "fswrite"
    /\ fsTier' = writeToFileSystem(ld[l].hash[1], ld[l].source)
    /\ ld' = [ld EXCEPT ![l] =
                IF cacheRootOk THEN Resolve([@ EXCEPT !.fsWrite = TRUE], @.source)
                ELSE Reject(@, "cache write")]
    /\ UNCHANGED <<cacheEnabled, platform, config, memory, cacheRootOk,
                   versions, epoch, persisted, rootEverOk, scope, probe, copy>>

\* cache.writeToFileSystem settles and transformSource returns the source.
FsWriteDone(l) ==
    /\ ld[l].pc = "fswrite"
    /\ fsTier' = writeToFileSystem(ld[l].hash[1], ld[l].source)
    /\ ld' = [ld EXCEPT ![l] = Resolve([@ EXCEPT !.fsWrite = cacheRootOk], @.source)]
    /\ UNCHANGED <<cacheEnabled, platform, config, memory, cacheRootOk,
                   versions, epoch, persisted, rootEverOk, scope, probe, copy>>

Next ==
    \/ \E f \in Files : Edit(f)
    \/ BreakCacheRoot
    \/ RepairCacheRoot
    \/ Restart
    \/ \E l \in Loads, path \in Files : OnLoad(l, path)
    \/ \E l \in Loads : OpenDone(l)
    \/ \E l \in Loads : StatDone(l)
    \/ \E l \in Loads : FsReadDone(l)
    \/ \E l \in Loads : ReadFileDone(l)
    \/ \E l \in Loads : CloseDone(l)
    \/ \E l \in Loads : TransformDone(l)
    \/ \E l \in Loads : FsWriteDone(l)

Spec == Init /\ [][Next]_vars

\* ------------------------------------------------------------------ claims
\* The lookup of load l has returned (not thrown) with caching enabled.
LookupReturned(l) ==
    /\ ld[l].pc \in {"close", "transform", "fswrite", "done"}
    /\ ld[l].error \in {"", "transform"}
    /\ ld[l].mtimeMs # <<>>

\* The transformed texts of the versions of a file from modification time t on.
TransformsSince(path, t) ==
    {TransformPipeline(config, path, ContentAt(path, u)) : u \in t..MtimeOf(path)}

\* C1: a lookup that returned after its stat observed modification time T is
\* either a hit on content cached under T (never under another modification
\* time), that content being the transform of a version of the file no older
\* than T, or a miss that carries the hash of T, which differs from the hash of
\* every other modification time.
C1_NoStaleHit ==
    \A l \in Loads :
        LookupReturned(l) =>
            LET r == ld[l] IN
            IF r.fromCache
            THEN /\ r.servedModifiedAt = r.mtimeMs
                 /\ r.contents \in TransformsSince(r.path, r.mtimeMs[1])
                 /\ r.hash = <<>>
            ELSE /\ r.hash = <<getCacheHash(platform, config, r.path, r.mtimeMs[1])>>
                 /\ \A t \in 0..MaxEdits + 1 :
                        t # r.mtimeMs[1] =>
                            r.hash[1] # getCacheHash(platform, config, r.path, t)

\* C1 witness: a load has missed at the new modification time while the cache
\* root still holds the text stored under the old one, and a stale in-memory
\* entry exists.
C1_Witness ==
    \E l \in Loads :
        /\ ld[l].pc = "transform" /\ ld[l].mtimeMs = <<1>> /\ ld[l].stale
        /\ getCacheHash(platform, config, ld[l].path, 0) \in DOMAIN fsTier
        /\ fsTier[getCacheHash(platform, config, ld[l].path, 0)] # ""
        /\ cacheRootOk

\* The step of load l that ends its store path: cache.writeToFileSystem has
\* settled without failing and transformSource returns.
StoreCompletes(l) ==
    ld[l].pc = "fswrite" /\ ld'[l].pc = "done" /\ cacheRootOk

\* C2: when the store path of a load completes with caching enabled, the cache
\* root holds the transformed text at the load's hash and the in-memory tier
\* holds, at the key of (path, platform), that text with the modification time
\* the lookup captured.
C2_WriteThrough ==
    [][\A l \in Loads :
          StoreCompletes(l) =>
              LET key == memoryCacheKey(ld[l].path, platform) IN
              /\ ld[l].hash[1] \in DOMAIN fsTier'
              /\ fsTier'[ld[l].hash[1]] = ld[l].source
              /\ key \in DOMAIN memory'
              /\ memory'[key] = [data |-> ld[l].source, modifiedAt |-> ld[l].mtimeMs[1]]]_vars

\* The step of load l in which fileHandle.stat settles without failing and
\* the in-memory tier is consulted.
StatSettles(l) ==
    ld[l].pc = "stat" /\ ld'[l].pc \in {"close", "read", "fsread"} /\ ld'[l].error = ""

\* C3, in the case of a stale in-memory entry and loads issued one after the
\* other: when an earlier load of this process has stored the transformed text
\* of the file under the file's present modification time, the lookup of the
\* next load of the file is a hit on that text (and so the transformer is not
\* run again).
C3_StoreObserved ==
    [][\A l \in Loads :
          LET stored == getCacheHash(platform, config, ld[l].path, MtimeOf(ld[l].path))
              key == memoryCacheKey(ld[l].path, platform) IN
          (/\ StatSettles(l)
           /\ scope = OneLoadAtATime
           /\ stored \in DOMAIN fsTier \ persisted
           /\ key \in DOMAIN memory /\ memory[key].modifiedAt # MtimeOf(ld[l].path))
          => (ld'[l].fromCache /\ ld'[l].contents = fsTier[stored])]_vars

\* The step of load l in which cache.readFromFileSystem settles.
FsReadSettles(l) ==
    ld[l].pc = "fsread" /\ ld'[l].pc \in {"close", "read"}

\* C4: when the in-memory tier has no entry for the file and the (readable)
\* cache root holds an entry at the hash of the file's platform, configuration,
\* path and modification time, the lookup returns the entry's text as a hit and
\* writes {data: text, modifiedAt: that modification time} into the in-memory
\* tier.
C4_Promotion ==
    [][\A l \in Loads :
          (FsReadSettles(l) /\ cacheRootOk /\ ld[l].hash[1] \in DOMAIN fsTier) =>
              LET key == memoryCacheKey(ld[l].path, platform)
                  text == fsTier[ld[l].hash[1]] IN
              /\ ld'[l].fromCache /\ ld'[l].contents = text
              /\ key \in DOMAIN memory'
              /\ memory'[key] = [data |-> text, modifiedAt |-> ld[l].mtimeMs[1]]]_vars

\* C5: a load in a restarted process, of a file whose hash (same platform,
\* configuration, path and modification time) the cache root already held
\* when the process started, finds the entry when the cache root is readable
\* and returns its text without running the transformer.
C5_PersistsAcrossRestart ==
    [][\A l \in Loads :
          (/\ FsReadSettles(l) /\ cacheRootOk
           /\ epoch > 0 /\ ld[l].hash[1] \in persisted) =>
              /\ ld'[l].fromCache
              /\ ld'[l].contents = fsTier[ld[l].hash[1]]
              /\ ld'[l].pc = "close" /\ ~ld'[l].transformed]_vars

\* C7: every entry of the cache root is the transform, under the hash's
\* configuration, of what the file of the hash held at the modification time of
\* the hash.
C7_FsEntryMatchesHash ==
    \A h \in DOMAIN fsTier :
        fsTier[h] = TransformPipeline(h[2], h[3], ContentAt(h[3], h[4]))

\* C6: in a process with caching disabled no lookup stats the file or consults
\* a tier, every lookup that returns is a miss with no hash carrying the raw
\* content of the file, and no step changes either tier, whatever the cache
\* root holds.
C6_DisabledBypass ==
    /\ [](~cacheEnabled =>
            \A l \in Loads :
                /\ ~ld[l].memRead /\ ~ld[l].fsRead /\ ~ld[l].fsWrite
                /\ ld[l].pc \notin {"stat", "fsread", "fswrite"}
                /\ ld[l].mtimeMs = <<>> /\ ld[l].hash = <<>> /\ ~ld[l].fromCache
                /\ ld[l].servedFrom = "")
    /\ [][~cacheEnabled =>
            \A l \in Loads :
                (ld[l].pc = "read" /\ ld'[l].pc = "close" /\ ld'[l].error = "") =>
                    ld'[l].contents = ContentOf(ld[l].path)]_vars
    /\ [][(~cacheEnabled /\ ~cacheEnabled') =>
            (memory' = memory /\ fsTier' = fsTier)]_vars

\* C6 witness: with caching disabled a lookup has returned its miss while the
\* cache root holds a text at the very hash the file has with caching enabled.
C6_Witness ==
    /\ ~cacheEnabled /\ cacheRootOk
    /\ \E l \in Loads :
        LET h == getCacheHash(platform, config, ld[l].path, MtimeOf(ld[l].path)) IN
        /\ ld[l].pc = "done" /\ ld[l].fileHandle = "closed"
        /\ ld[l].error = "hash is required for caching"
        /\ h \in DOMAIN fsTier /\ fsTier[h] # ""

\* C8: an in-memory entry whose modifiedAt is the file's present modification
\* time holds the transform of the file's present content.
C8_MemoryEntryCurrent ==
    \A f \in Files :
        LET key == memoryCacheKey(f, platform) IN
        (key \in DOMAIN memory /\ memory[key].modifiedAt = MtimeOf(f)) =>
            memory[key].data = TransformPipeline(config, f, ContentOf(f))

\* C8 witness: after an edit the in-memory tier holds an entry with the new
\* modification time, while the cache root holds an entry that is not the
\* transform of what the file held at its hash's modification time.
C8_Witness ==
    \E f \in Files :
        LET key == memoryCacheKey(f, platform) IN
        /\ key \in DOMAIN memory /\ memory[key].modifiedAt = MtimeOf(f)
        /\ MtimeOf(f) = 1
        /\ ~C7_FsEntryMatchesHash

\* The errors of the source file: fs.open, fileHandle.stat, fileHandle.readFile.
SourceErrors == {"open", "stat", "read"}

C10_SourceErrorFatal ==
    /\ [](\A l \in Loads :
            ld[l].error \in SourceErrors =>
                /\ ~ld[l].transformed /\ ~ld[l].fsWrite /\ ld[l].servedFrom = ""
                /\ ld[l].pc \in {"close", "done"}
                /\ ld[l].pc = "done" => ld[l].outcome = "rejected"
                /\ ld[l].error = "open" => ld[l].fileHandle = "null")
    /\ [][\A l \in Loads :
            (ld[l].error \in SourceErrors /\ ld[l].pc = "close" /\ ld'[l] # ld[l]
             /\ epoch' = epoch) =>
                /\ ld'[l].pc = "done" /\ ld'[l].outcome = "rejected"
                /\ ld'[l].error = ld[l].error
                /\ memory' = memory /\ fsTier' = fsTier]_vars

\* C10 witness: a load that found a stale in-memory entry failed to read its
\* source file and was rejected with the read error, the tiers holding entries.
C10_Witness ==
    \E l \in Loads :
        /\ ld[l].pc = "done" /\ ld[l].error = "read" /\ ld[l].stale
        /\ ld[l].outcome = "rejected"
        /\ memory # <<>> /\ fsTier # <<>>

\* Two loads of the same file whose lookups both missed at the file's current
\* modification time (the file is unmodified since both stat calls).
MissedTogether(l1, l2) ==
    /\ l1 # l2
    /\ ld[l1].path = ld[l2].path
    /\ \A l \in {l1, l2} : /\ LookupReturned(l)
                             /\ ~ld[l].fromCache
                             /\ ld[l].mtimeMs = <<MtimeOf(ld[l].path)>>

\* C11: concurrent loads of the same unmodified file that both miss are harmless:
\* both compute the same hash from the same raw content, each one that completes
\* has run the transformer and returns the same transformed text, and once a
\* load's store has been issued with the cache root usable the filesystem entry
\* at that hash is that text.
C11_ConcurrentMissesHarmless ==
    \A l1, l2 \in Loads :
        MissedTogether(l1, l2) =>
            /\ ld[l1].hash = ld[l2].hash
            /\ ld[l1].contents = ld[l2].contents
            /\ \A l \in {l1, l2} :
                   ld[l].pc = "done" /\ ld[l].error = "" =>
                       /\ ld[l].transformed
                       /\ ld[l].result =
                              TransformPipeline(config, ld[l].path, ContentOf(ld[l].path))
                       /\ ld[l].fsWrite =>
                              /\ ld[l].hash[1] \in DOMAIN fsTier
                              /\ fsTier[ld[l].hash[1]] = ld[l].result

\* Both loads missed before either stored, both stored, and the text is not empty.
C11_Witness ==
    \E l1, l2 \in Loads :
        /\ MissedTogether(l1, l2)
        /\ \A l \in {l1, l2} : /\ ld[l].pc = "done"
                                 /\ ld[l].fsWrite
                                 /\ ld[l].memRead /\ ld[l].fsRead /\ ~ld[l].stale
                                 /\ ld[l].result # ""
        /\ cacheRootOk /\ rootEverOk
        /\ fsTier[ld[l1].hash[1]] = ld[l2].result

\* The in-memory entry of a file under the process's platform, if any.
MemoryEntryOf(mem, path) ==
    LET key == memoryCacheKey(path, platform) IN
    IF key \in DOMAIN mem THEN <<mem[key]>> ELSE <<>>

\* The filesystem entries whose hash was computed for a file.
FsEntriesOf(fs, path) == {<<h, fs[h]>> : h \in {x \in DOMAIN fs : x[3] = path}}

\* A step taken by load l within one process.
StepOf(l) == ld'[l] # ld[l] /\ epoch' = epoch

\* C12: loads of different files do not interfere: no step of a load of one file
\* creates, changes or removes the in-memory entry or a filesystem entry of
\* another file, and what a load returns is the transform of a version of its
\* own file.
C12_NoInterference ==
    /\ [](\A l \in Loads :
            ld[l].pc = "done" /\ ld[l].error = "" =>
                ld[l].result \in TransformsSince(ld[l].path, 0))
    /\ [][\A l \in Loads :
            StepOf(l) =>
                \A g \in Files \ {ld'[l].path} :
                    /\ MemoryEntryOf(memory', g) = MemoryEntryOf(memory, g)
                    /\ FsEntriesOf(fsTier', g) = FsEntriesOf(fsTier, g)]_vars

\* C12 witness: a load of one file is about to store while a load of another
\* file has just promoted that file's filesystem entry, and both files have
\* entries in both tiers.
C12_Witness ==
    \E l1, l2 \in Loads :
        /\ ld[l1].path # ld[l2].path
        /\ ld[l1].pc = "fswrite"
        /\ ld[l2].pc = "close" /\ ld[l2].servedFrom = "filesystem"
        /\ \A l \in {l1, l2} : /\ MemoryEntryOf(memory, ld[l].path) # <<>>
                                 /\ FsEntriesOf(fsTier, ld[l].path) # {}

\* C13: a lookup that finds a stale in-memory entry never consults the
\* filesystem tier; it reads the raw file and returns it as a miss with the hash
\* of the modification time it observed, and none of its steps changes the
\* in-memory tier (the stale entry stays) or the filesystem tier.
C13_StaleEntryPolicy ==
    /\ [](\A l \in Loads :
            ld[l].stale =>
                /\ ~ld[l].fsRead /\ ld[l].pc # "fsread"
                /\ ~ld[l].fromCache /\ ld[l].servedFrom = ""
                /\ (LookupReturned(l) /\ ld[l].error = "") =>
                       /\ ld[l].rawRead
                       /\ ld[l].hash = <<HashOfParam(ld[l].path, ld[l].mtimeMs[1])>>)
    /\ [][\A l \in Loads :
            (StepOf(l) /\ ld'[l].stale /\ ld'[l].pc \in {"read", "close"}) =>
                /\ memory' = memory /\ fsTier' = fsTier
                /\ MemoryEntryOf(memory', ld'[l].path) # <<>>
                /\ (ld'[l].pc = "close" /\ ld'[l].error = "") =>
                       ld'[l].contents = ContentOf(ld[l].path)]_vars

\* C13 witness: a lookup found a stale in-memory entry and returned its miss
\* while the filesystem tier holds a text at the very hash it returned.
C13_Witness ==
    \E l \in Loads :
        /\ ld[l].stale /\ ld[l].pc = "close" /\ ld[l].error = ""
        /\ cacheRootOk
        /\ ld[l].hash[1] \in DOMAIN fsTier
        /\ Truthy(<<fsTier[ld[l].hash[1]]>>)

\* The lookup of load l settles on a hit in the in-memory tier.
MemoryHitSettles(l) ==
    ld[l].pc = "stat" /\ ld'[l].pc = "close" /\ ld'[l].servedFrom = "memory"

\* C14: a hit in the in-memory tier is terminal: the lookup returns the entry's
\* data as a hit with no hash, having computed no hash and read neither the
\* filesystem tier nor the raw file, and changes neither tier; a lookup that
\* carries a hash was not served from the in-memory tier.
C14_MemoryHitTerminal ==
    /\ [](\A l \in Loads :
            /\ ld[l].servedFrom = "memory" =>
                   /\ ld[l].fromCache /\ ld[l].hash = <<>>
                   /\ ~ld[l].fsRead /\ ~ld[l].rawRead
                   /\ ~ld[l].transformed /\ ~ld[l].fsWrite
                   /\ ld[l].pc \in {"close", "done"}
            /\ ld[l].hash # <<>> => ld[l].servedFrom # "memory")
    /\ [][\A l \in Loads :
            MemoryHitSettles(l) =>
                /\ ld'[l].contents = MemoryEntryOf(memory, ld[l].path)[1].data
                /\ memory' = memory /\ fsTier' = fsTier]_vars

\* C14 witness: a load was served from the in-memory tier while the filesystem
\* tier holds the entry of the file's current hash.
C14_Witness ==
    \E l \in Loads :
        /\ ld[l].servedFrom = "memory" /\ ld[l].pc = "done"
        /\ ld[l].result # ""
        /\ cacheRootOk
        /\ HashOfParam(ld[l].path, MtimeOf(ld[l].path)) \in DOMAIN fsTier

\* C16: a store is issued only after every transform step succeeded, with the
\* fully transformed source; when a step throws the load is rejected with that
\* error, issues no store, and the step changes neither tier.
C16_FailedTransformStoresNothing ==
    /\ [](\A l \in Loads :
            /\ (ld[l].pc = "fswrite" \/ ld[l].fsWrite) =>
                   /\ ld[l].transformed /\ ld[l].failedStep = "" /\ ld[l].error = ""
                   /\ ld[l].source = TransformPipeline(config, ld[l].path, ld[l].contents)
            /\ ld[l].error = "transform" =>
                   /\ ld[l].pc = "done" /\ ld[l].outcome = "rejected"
                   /\ ~ld[l].fsWrite /\ ld[l].servedFrom = ""
                   /\ \E i \in DOMAIN TransformSteps(config, ld[l].path, ld[l].contents) :
                          TransformSteps(config, ld[l].path, ld[l].contents)[i] = ld[l].failedStep)
    /\ [][\A l \in Loads :
            (StepOf(l) /\ ld'[l].error = "transform") =>
                memory' = memory /\ fsTier' = fsTier]_vars

\* C16 witness: the last step (swc) threw after an earlier step had succeeded;
\* the load is rejected and, with the cache root usable, neither tier holds
\* anything for the file.
C16_Witness ==
    \E l \in Loads :
        /\ ld[l].error = "transform" /\ ld[l].failedStep = "swc"
        /\ Len(TransformSteps(config, ld[l].path, ld[l].contents)) > 1
        /\ cacheRootOk /\ rootEverOk
        /\ MemoryEntryOf(memory, ld[l].path) = <<>>
        /\ FsEntriesOf(fsTier, ld[l].path) = {}

\* C17: no load is rejected with 'hash is required for caching', and with
\* caching disabled a load whose file could be opened and read and whose
\* transform steps succeed returns the transformed source.
C17_HashErrorNeverRaised ==
    \A l \in Loads :
        /\ ld[l].error # "hash is required for caching"
        /\ (~cacheEnabled /\ ld[l].pc = "done"
               /\ ld[l].error \notin SourceErrors \cup {"transform"}) =>
               /\ ld[l].outcome = "resolved"
               /\ ld[l].result \in TransformsSince(ld[l].path, 0)

\* C18: within one process every in-memory entry is backed by the filesystem
\* tier: the filesystem tier holds, at the hash of the entry's file and
\* modifiedAt, a text equal to the entry's data; and the in-memory tier is only
\* ever written by the promotion of a filesystem hit.
C18_MemoryBackedByFs ==
    /\ [](\A f \in Files :
            LET entry == MemoryEntryOf(memory, f) IN
            entry # <<>> =>
                LET h == getCacheHash(platform, config, f, entry[1].modifiedAt) IN
                /\ h \in DOMAIN fsTier
                /\ fsTier[h] = entry[1].data)
    /\ [][(memory' # memory /\ epoch' = epoch) =>
            \E l \in Loads :
                /\ FsReadSettles(l) /\ ld'[l].servedFrom = "filesystem"
                /\ memory' = writeToMemory(memoryCacheKey(ld[l].path, platform),
                                  [data |-> fsTier[ld[l].hash[1]],
                                   modifiedAt |-> ld[l].mtimeMs[1]])]_vars

\* C19: a lookup holds its file handle open exactly while it runs: the handle is
\* open from the success of fs.open until the finally block, closed exactly once
\* before onLoad goes on or its caller sees a result or an error, never closed
\* when fs.open failed, and no finished load has a handle open.
C19_HandleReleased ==
    \A l \in Loads :
        /\ ld[l].pc \in {"idle", "open"} =>
               ld[l].fileHandle = "null" /\ ld[l].closes = 0
        /\ ld[l].pc \in {"stat", "fsread", "read", "close"} =>
               ld[l].fileHandle = "open" /\ ld[l].closes = 0
        /\ ld[l].pc \in {"transform", "fswrite"} =>
               ld[l].fileHandle = "closed" /\ ld[l].closes = 1
        /\ ld[l].pc = "done" =>
               IF ld[l].error = "open"
               THEN ld[l].fileHandle = "null" /\ ld[l].closes = 0
               ELSE ld[l].fileHandle = "closed" /\ ld[l].closes = 1

\* C19 witness: one load was rejected because readFile failed and another
\* because fs.open failed; the first closed its handle once, the second never
\* had one.
C19_Witness ==
    \E l1, l2 \in Loads :
        /\ ld[l1].pc = "done" /\ ld[l1].error = "read"
        /\ ld[l1].fileHandle = "closed" /\ ld[l1].closes = 1
        /\ ld[l2].pc = "done" /\ ld[l2].error = "open"
        /\ ld[l2].fileHandle = "null" /\ ld[l2].closes = 0

\* ------------------------------------------------------ the in-memory key
\* Paths the onLoad filter /\.(?:[mc]js|[tj]sx?)$/ lets through, and values of
\* build.initialOptions.platform: undefined, the empty string, other strings.
ProbePaths == {"/a.js", "/a.jsx", "/b.js"}
ProbePlatforms == {<<>>, <<"">>, <<"x">>, <<"node">>}

\* A build process that is loading nothing.
AtRest ==
    /\ scope = OneLoadAtATime
    /\ cacheEnabled = TRUE /\ cacheRootOk = TRUE /\ rootEverOk = TRUE
    /\ platform = <<>> /\ config = ConfigA
    /\ memory = <<>> /\ fsTier = <<>> /\ persisted = {}
    /\ versions = [f \in Files |-> <<CHOOSE c \in ContentsOf(f) : c # "">>]
    /\ ld = [l \in Loads |-> IdleLoad]
    /\ epoch = 0

ProbeInit ==
    /\ AtRest
    /\ copy = NoCopy
    /\ probe \in [p1 : ProbePaths, pl1 : ProbePlatforms,
                   p2 : ProbePaths, pl2 : ProbePlatforms, keys : {<<>>}]

\* The key of each pair is derived as getTransformedSourceFromCache derives it.
DeriveKeys ==
    /\ probe.keys = <<>>
    /\ probe' = [probe EXCEPT !.keys = <<memoryCacheKey(probe.p1, probe.pl1),
                                         memoryCacheKey(probe.p2, probe.pl2)>>]
    /\ UNCHANGED <<cacheEnabled, platform, config, memory, fsTier, cacheRootOk,
                   versions, ld, epoch, persisted, rootEverOk, scope, copy>>

KeySpec == ProbeInit /\ [][DeriveKeys]_vars

\* C15: the in-memory key is injective: two (path, platform) pairs whose keys
\* are equal have the same path and the same platform.
C15_KeyInjective ==
    (probe.keys # <<>> /\ probe.keys[1] = probe.keys[2]) =>
        (probe.p1 = probe.p2 /\ probe.pl1 = probe.pl2)

\* ------------------------------------------------- copyAssetsToDestination
\* The resource qualifier of each scale Android knows.
ANDROID_ASSET_QUALIFIER ==
    ("0.75" :> "ldpi") @@ ("1" :> "mdpi") @@ ("1.5" :> "hdpi") @@
    ("2" :> "xhdpi") @@ ("3" :> "xxhdpi") @@ ("4" :> "xxxhdpi")

\* Assets: an image in two scales, a font, an image in a scale Android has no
\* qualifier for; and the asset lists a build may collect.
AssetImage == [name |-> "img", extension |-> ".png", path |-> "/src/img.png",
               httpServerLocation |-> "/assets/src", scales |-> {"1", "2"}]
AssetFont == [name |-> "font", extension |-> ".ttf", path |-> "/src/font.ttf",
              httpServerLocation |-> "/assets/src", scales |-> {"1"}]
AssetOdd == [name |-> "odd", extension |-> ".png", path |-> "/src/odd.png",
             httpServerLocation |-> "/assets/odd", scales |-> {"5"}]
AssetLists == {<<AssetImage>>, <<AssetImage, AssetFont>>, <<AssetFont, AssetOdd>>}

\* One (asset, scale) pair of the nested asset.scales.map: <<index, scale>>.
CopyTasks(assets) ==
    UNION {{<<i, scale>> : scale \in assets[i].scales} : i \in DOMAIN assets}

\* /\.(?:png|jpg|jpeg|gif|xml)$/.test(asset.extension)
isDrawable(extension) == extension \in {".png", ".jpg", ".jpeg", ".gif", ".xml"}

\* path.dirname(to) of the copy a task is at: the drawable/ copy of a drawable
\* in scale 1, or the copy every task ends with.
DestinationDir(c, t) ==
    LET asset == c.assets[t[1]] IN
    IF c.platform # "android" THEN c.assetsDir[1] \o asset.httpServerLocation
    ELSE IF c.task[t].toDrawable THEN c.assetsDir[1] \o "/drawable"
    ELSE IF isDrawable(asset.extension)
         THEN c.assetsDir[1] \o "/drawable-" \o ANDROID_ASSET_QUALIFIER[t[2]]
         ELSE c.assetsDir[1] \o "/raw"

\* The promise copyAssetsToDestination returned: Promise.all rejects with the
\* first task that fails and resolves when every task is done.
CopyOutcome(c) ==
    IF c.pc = "idle" THEN "none"
    ELSE IF c.pc = "returned" THEN "resolved"
    ELSE IF \E t \in DOMAIN c.task : c.task[t].pc = "failed" THEN "rejected"
    ELSE IF \A t \in DOMAIN c.task : c.task[t].pc = "done" THEN "resolved"
    ELSE "pending"

CopyInit ==
    /\ AtRest
    /\ probe = NoProbe
    /\ copy \in [pc : {"idle"},
                  mode : {"bundle", "watch"},
                  assetsDir : {<<>>, <<"/out">>},
                  platform : {"ios", "android"},
                  assets : AssetLists,
                  dirs : {{}, {"/out/assets/src"}, {"/out/drawable"}},
                  made : {{}},       \* (history) the directories fs.mkdir created
                  fsOps : {{}},      \* (history) the node:fs calls issued
                  task : {<<>>}]

\* The task of one (asset, scale) pair up to its first await.
StartTask(c, t) ==
    LET asset == c.assets[t[1]]
        fresh == [pc |-> "resolve", toDrawable |-> FALSE, from |-> "", error |-> ""] IN
    IF c.platform # "android" THEN fresh
    ELSE IF t[2] \notin DOMAIN ANDROID_ASSET_QUALIFIER
         THEN [fresh EXCEPT !.pc = "failed", !.error = "invalid asset qualifier"]
    ELSE IF isDrawable(asset.extension) /\ t[2] = "1"
         THEN [fresh EXCEPT !.pc = "access", !.toDrawable = TRUE, !.from = asset.path]
    ELSE fresh

\* The node:fs call a task is waiting for, if any (resolveAssetPath only calls
\* fs.stat for scale 1).
PendingFsOp(r, t) ==
    CASE r.pc = "resolve" -> IF t[2] = "1" THEN {"stat"} ELSE {}
      [] r.pc = "access" -> {"access"}
      [] r.pc = "mkdir" -> {"mkdir"}
      [] r.pc = "copyFile" -> {"copyFile"}
      [] OTHER -> {}

\* copyAssetsToDestination is called: it returns at once in watch mode or
\* without assetsDir, else every task runs up to its first await.
CopyAssetsToDestination ==
    /\ copy.pc = "idle"
    /\ copy' = IF copy.mode = "watch" \/ copy.assetsDir = <<>>
               THEN [copy EXCEPT !.pc = "returned"]
               ELSE LET started == [t \in CopyTasks(copy.assets) |->
                                       StartTask(copy, t)] IN
                    [copy EXCEPT !.pc = "running",
                                 !.task = started,
                                 !.fsOps = UNION {PendingFsOp(started[t], t) :
                                                     t \in DOMAIN started}]
    /\ UNCHANGED <<cacheEnabled, platform, config, memory, fsTier, cacheRootOk,
                   versions, ld, epoch, persisted, rootEverOk, scope, probe>>

\* A task moves on, issuing the node:fs call it then waits for.
Advance(t, r, dirs, made) ==
    /\ copy' = [copy EXCEPT !.task[t] = r,
                            !.dirs = dirs,
                            !.made = made,
                            !.fsOps = @ \cup PendingFsOp(r, t)]
    /\ UNCHANGED <<cacheEnabled, platform, config, memory, fsTier, cacheRootOk,
                   versions, ld, epoch, persisted, rootEverOk, scope, probe>>

\* resolveAssetPath settles: for scale 1 the plain path if fs.stat finds it,
\* else the suffixed path if fs.stat finds that, else the error; for other
\* scales the suffixed path. mkdirWithAssertPath then issues fs.access.
ResolveAssetPathDone(t) ==
    /\ copy.pc = "running" /\ t \in DOMAIN copy.task
    /\ copy.task[t].pc = "resolve"
    /\ \E found \in IF t[2] = "1" THEN {"plain", "suffixed", "none"} ELSE {"suffixed"} :
         Advance(t, IF found = "none"
                    THEN [copy.task[t] EXCEPT !.pc = "failed", !.error = "stat"]
                    ELSE [copy.task[t] EXCEPT !.pc = "access", !.from = found],
                 copy.dirs, copy.made)

\* fs.access(dirname) settles: found, copyFile is issued; else fs.mkdir is.
AccessDone(t) ==
    /\ copy.pc = "running" /\ t \in DOMAIN copy.task
    /\ copy.task[t].pc = "access"
    /\ \E ok \in BOOLEAN :
         /\ ok => DestinationDir(copy, t) \in copy.dirs
         /\ Advance(t, [copy.task[t] EXCEPT !.pc = IF ok THEN "copyFile" ELSE "mkdir"],
                    copy.dirs, copy.made)

\* (MkdirDone, were the error of fs.mkdir swallowed)
MkdirDone_IgnoringFailure(t) ==
    /\ copy.pc = "running" /\ t \in DOMAIN copy.task
    /\ copy.task[t].pc = "mkdir"
    /\ \E ok \in BOOLEAN :
         LET dir == DestinationDir(copy, t) IN
         IF ok
         THEN Advance(t, [copy.task[t] EXCEPT !.pc = "copyFile"],
                      copy.dirs \cup {dir}, copy.made \cup {dir})
         ELSE Advance(t, [copy.task[t] EXCEPT !.pc = "copyFile"], copy.dirs, copy.made)

\* fs.mkdir(dirname, {recursive: true}) settles: the directory exists and
\* copyFile is issued, or the task fails.
MkdirDone(t) ==
    /\ copy.pc = "running" /\ t \in DOMAIN copy.task
    /\ copy.task[t].pc = "mkdir"
    /\ \E ok \in BOOLEAN :
         LET dir == DestinationDir(copy, t) IN
         IF ok
         THEN Advance(t, [copy.task[t] EXCEPT !.pc = "copyFile"],
                      copy.dirs \cup {dir}, copy.made \cup {dir})
         ELSE Advance(t, [copy.task[t] EXCEPT !.pc = "failed", !.error = "mkdir"],
                      copy.dirs, copy.made)

\* fs.copyFile settles: after the drawable/ copy the task goes on to
\* resolveAssetPath, after the last copy it is done.
CopyFileDone(t) ==
    /\ copy.pc = "running" /\ t \in DOMAIN copy.task
    /\ copy.task[t].pc = "copyFile"
    /\ \E ok \in BOOLEAN :
         Advance(t, IF ~ok
                    THEN [copy.task[t] EXCEPT !.pc = "failed", !.error = "copyFile"]
                    ELSE IF copy.task[t].toDrawable
                    THEN [copy.task[t] EXCEPT !.pc = "resolve", !.toDrawable = FALSE]
                    ELSE [copy.task[t] EXCEPT !.pc = "done"],
                 copy.dirs, copy.made)

CopyNext ==
    \/ CopyAssetsToDestination
    \/ \E t \in CopyTasks(copy.assets) : ResolveAssetPathDone(t)
    \/ \E t \in CopyTasks(copy.assets) : AccessDone(t)
    \/ \E t \in CopyTasks(copy.assets) : MkdirDone(t)
    \/ \E t \in CopyTasks(copy.assets) : CopyFileDone(t)

CopySpec == CopyInit /\ [][CopyNext]_vars

\* C20: called in watch mode or without assetsDir, copyAssetsToDestination
\* issues no node:fs call, changes no directory and resolves; otherwise
\* whenever a task has issued fs.copyFile the directory of its destination
\* exists, whatever the order in which the tasks' calls settle.
C20_CopyAfterDirectoryEnsured ==
    /\ [](copy.pc # "idle" =>
            IF copy.mode = "watch" \/ copy.assetsDir = <<>>
            THEN /\ copy.pc = "returned" /\ CopyOutcome(copy) = "resolved"
                 /\ copy.fsOps = {} /\ copy.made = {} /\ copy.task = <<>>
            ELSE /\ copy.pc = "running"
                 /\ \A t \in DOMAIN copy.task :
                        copy.task[t].pc = "copyFile" =>
                            DestinationDir(copy, t) \in copy.dirs)
    /\ [][copy.pc = "idle" /\ (copy.mode = "watch" \/ copy.assetsDir = <<>>) =>
            copy'.dirs = copy.dirs]_vars
    /\ [][\A t \in DOMAIN copy.task :
            (copy.pc = "running" /\ copy.task[t].pc # "copyFile"
               /\ copy'.task[t].pc = "copyFile") =>
                /\ copy.task[t].pc \in {"access", "mkdir"}
                /\ DestinationDir(copy', t) \in copy'.dirs]_vars

\* C20 witness: two tasks copying into the same directory, which did not exist
\* when the call began, have both issued their fs.copyFile.
C20_Witness ==
    /\ copy.pc = "running"
    /\ \E t1, t2 \in DOMAIN copy.task :
        /\ t1 # t2
        /\ copy.task[t1].pc = "copyFile" /\ copy.task[t2].pc = "copyFile"
        /\ DestinationDir(copy, t1) = DestinationDir(copy, t2)
        /\ DestinationDir(copy, t1) \in copy.made

====
